---- MODULE Spec2Model ----
(***************************************************************************)
(* binner (src/src/main.rs): read numbers from standard input, group them  *)
(* into bins of a fixed width and print each bin's center and count.       *)
(*                                                                         *)
(* Numbers.  An f64 is a record [k, hi, lo]:                               *)
(*   k = "fin"  : the finite number hi * 1e10 + lo / 4                     *)
(*   k = "nan"  : NaN        k = "pinf" / "ninf" : +Infinity / -Infinity   *)
(* Every number of the model lies on the grid of quarters, with |lo| far   *)
(* below 1e10 and a width of 0, +-0.5 or +-1.  On that grid every f64      *)
(* operation the program performs is exact, so the operators below compute *)
(* the value the IEEE-754 operation returns.                               *)
(***************************************************************************)
EXTENDS Integers, Sequences, FiniteSets, TLC

\* Number of lines read from standard input.
MaxLines == 3

\* i32::MAX, the largest key `as i32` can produce (main.rs:31).
I32_MAX == 2147483647
I32_MIN == (-I32_MAX) - 1

----------------------------------------------------------------------------
\* f64 values

Fin(h, l) == [k |-> "fin", hi |-> h, lo |-> l]
NaN == [k |-> "nan", hi |-> 0, lo |-> 0]
PInf == [k |-> "pinf", hi |-> 0, lo |-> 0]
NInf == [k |-> "ninf", hi |-> 0, lo |-> 0]

IsFin(x) == x.k = "fin"
IsNaN(x) == x.k = "nan"

\* sign of a non-NaN number: -1, 0, 1
Sgn(x) ==
  CASE x.k = "pinf" -> 1
    [] x.k = "ninf" -> -1
    [] OTHER -> IF x.hi > 0 THEN 1
                ELSE IF x.hi < 0 THEN -1
                ELSE IF x.lo > 0 THEN 1
                ELSE IF x.lo < 0 THEN -1
                ELSE 0

InfOfSign(s) == IF s > 0 THEN PInf ELSE NInf

FNeg(x) ==
  CASE x.k = "nan" -> NaN
    [] x.k = "pinf" -> NInf
    [] x.k = "ninf" -> PInf
    [] OTHER -> Fin(-x.hi, -x.lo)

\* a + b
FAdd(a, b) ==
  CASE IsNaN(a) \/ IsNaN(b) -> NaN
    [] IsFin(a) /\ IsFin(b) -> Fin(a.hi + b.hi, a.lo + b.lo)
    [] IsFin(a) -> b
    [] IsFin(b) -> a
    [] OTHER -> IF a.k = b.k THEN a ELSE NaN

\* a - b
FSub(a, b) == FAdd(a, FNeg(b))

\* a * b, for a finite factor below 1e10 in magnitude (a width)
FMul(a, b) ==
  CASE IsNaN(a) \/ IsNaN(b) -> NaN
    [] IsFin(a) /\ IsFin(b) -> Fin((a.lo * b.hi) \div 4, (a.lo * b.lo) \div 4)
    [] OTHER -> IF Sgn(a) = 0 \/ Sgn(b) = 0 THEN NaN
                ELSE InfOfSign(Sgn(a) * Sgn(b))

\* floor of the quotient of integers n / d, d # 0
IntFloorDiv(n, d) == IF d > 0 THEN n \div d ELSE (-n) \div (-d)

\* (a / b).floor(), for a finite divisor below 1e10 in magnitude (a width)
FloorDiv(a, b) ==
  CASE IsNaN(a) \/ IsNaN(b) -> NaN
    [] Sgn(b) = 0 -> IF Sgn(a) = 0 THEN NaN ELSE InfOfSign(Sgn(a))
    [] ~IsFin(a) -> InfOfSign(Sgn(a) * Sgn(b))
    [] OTHER -> Fin(IntFloorDiv(4 * a.hi, b.lo), 4 * IntFloorDiv(a.lo, b.lo))

\* x as i32, for an integral or non-finite x: the cast saturates and sends
\* NaN to 0 (the meaning Rust defines for a float-to-integer cast)
AsI32(x) ==
  CASE x.k = "nan" -> 0
    [] x.k = "pinf" -> I32_MAX
    [] x.k = "ninf" -> I32_MIN
    [] OTHER -> IF x.hi > 0 THEN I32_MAX
                ELSE IF x.hi < 0 THEN I32_MIN
                ELSE x.lo \div 4

\* a.partial_cmp(&b): "Less", "Equal", "Greater" or "None"
PartialCmp(a, b) ==
  CASE IsNaN(a) \/ IsNaN(b) -> "None"
    [] a.k = b.k /\ ~IsFin(a) -> "Equal"
    [] a.k = "ninf" \/ b.k = "pinf" -> "Less"
    [] a.k = "pinf" \/ b.k = "ninf" -> "Greater"
    [] OTHER -> IF a.hi < b.hi \/ (a.hi = b.hi /\ a.lo < b.lo) THEN "Less"
                ELSE IF a.hi = b.hi /\ a.lo = b.lo THEN "Equal"
                ELSE "Greater"

Half == Fin(0, 2)

----------------------------------------------------------------------------
\* Standard input.  A line is what stdin.lock().lines() yields: a text, or an
\* error when the bytes of the line are not valid UTF-8.

Line(t) == [utf8 |-> TRUE, text |-> t]
BadLine == [utf8 |-> FALSE, text |-> ""]

Lines ==
  { Line("0.25"), Line(" 0.75 "), Line("-1.25"), Line("1.5"), Line("NaN"),
    Line("1e10"), Line("2e10"), Line("abc"), BadLine }

\* the widths and origins given with -w and -s: -1, 0, 0.5, 1 and 0, 0.5
Widths == { Fin(0, -4), Fin(0, 0), Fin(0, 2), Fin(0, 4) }
Starts == { Fin(0, 0), Fin(0, 2) }

\* str::trim on the texts of Lines
Trim(t) == IF t = " 0.75 " THEN "0.75" ELSE t

Ok(x) == [ok |-> TRUE, num |-> x]
Err == [ok |-> FALSE, num |-> NaN]

\* str::parse::<f64> on the trimmed texts of Lines
ParseF64(t) ==
  CASE t = "0.25" -> Ok(Fin(0, 1))
    [] t = "0.75" -> Ok(Fin(0, 3))
    [] t = "-1.25" -> Ok(Fin(0, -5))
    [] t = "1.5" -> Ok(Fin(0, 6))
    [] t = "NaN" -> Ok(NaN)
    [] t = "1e10" -> Ok(Fin(1, 0))
    [] t = "2e10" -> Ok(Fin(2, 0))
    [] OTHER -> Err

----------------------------------------------------------------------------
\* fn bins

\* (val / binwidth).floor() as i32
BinId(val, bw) == AsI32(FloorDiv(val, bw))

\* binwidth * (((val - binstart) / binwidth).floor() + 0.5) + binstart
Center(val, bw, bs) ==
  FAdd(FMul(bw, FAdd(FloorDiv(FSub(val, bs), bw), Half)), bs)

\* Position, were it never to find the key
PositionNever(ids, id) == 0

\* Position, were it to count the index found from 1 where the vector counts
\* from 0
PositionOffByOne(ids, id) ==
  IF \E p \in 1..Len(ids) : ids[p] = id
  THEN 1 + CHOOSE p \in 1..Len(ids) :
             ids[p] = id /\ \A q \in 1..(p - 1) : ids[q] # id
  ELSE 0

\* bin_ids.iter().position(|&b| b == bin_id): the first index holding bin_id
\* (counted from 1), or 0 for None
Position(ids, id) ==
  IF \E p \in 1..Len(ids) : ids[p] = id
  THEN CHOOSE p \in 1..Len(ids) :
         ids[p] = id /\ \A q \in 1..(p - 1) : ids[q] # id
  ELSE 0

\* the state of the loop of bins
BinState(ids, ecs, pan) == [bin_ids |-> ids, edges_counts |-> ecs, panicked |-> pan]

\* BinStep, were a repeated key to leave the count as it is
BinStepNoIncrement(st, val, bw, bs) ==
  IF Position(st.bin_ids, BinId(val, bw)) # 0
  THEN st
  ELSE BinState(Append(st.bin_ids, BinId(val, bw)),
                Append(st.edges_counts, <<Center(val, bw, bs), 1>>),
                st.panicked)

\* BinStep, were a repeated key to recompute the center from the new value
BinStepRecenter(st, val, bw, bs) ==
  LET p == Position(st.bin_ids, BinId(val, bw))
  IN  IF p # 0
      THEN BinState(st.bin_ids,
                    [st.edges_counts EXCEPT
                       ![p] = <<Center(val, bw, bs), @[2] + 1>>],
                    st.panicked)
      ELSE BinState(Append(st.bin_ids, BinId(val, bw)),
                    Append(st.edges_counts, <<Center(val, bw, bs), 1>>),
                    st.panicked)

\* one iteration of the loop of bins, on the value val
BinStep(st, val, bw, bs) ==
  LET bin_id == BinId(val, bw)
      p == Position(st.bin_ids, bin_id)
  IN  IF p # 0
      THEN IF p > Len(st.edges_counts)
           THEN BinState(st.bin_ids, st.edges_counts, TRUE)
           ELSE BinState(st.bin_ids,
                         [st.edges_counts EXCEPT ![p] = <<@[1], @[2] + 1>>],
                         st.panicked)
      ELSE BinState(Append(st.bin_ids, bin_id),
                    Append(st.edges_counts, <<Center(val, bw, bs), 1>>),
                    st.panicked)

\* Compare, were its operands exchanged
CompareReversed(a, b) ==
  LET c == PartialCmp(b[1], a[1])
  IN  IF c = "None" THEN "Equal" ELSE c

\* the comparator of the sort: partial_cmp, with Equal where it gives None
Compare(a, b) ==
  LET c == PartialCmp(a[1], b[1])
  IN  IF c = "None" THEN "Equal" ELSE c

IsLess(a, b) == Compare(a, b) = "Less"

\* slice::sort_by on a short slice: a stable insertion sort, each element
\* moved left past the elements it is less than
RECURSIVE InsertTail(_, _)
InsertTail(s, x) ==
  IF s = <<>> \/ ~IsLess(x, s[Len(s)])
  THEN Append(s, x)
  ELSE Append(InsertTail(SubSeq(s, 1, Len(s) - 1), x), s[Len(s)])

RECURSIVE InsertionSort(_, _)
InsertionSort(v, n) ==
  IF n = 0 THEN <<>> ELSE InsertTail(InsertionSort(v, n - 1), v[n])

SortBy(v) == InsertionSort(v, Len(v))

\* the loop of bins over the first n values
RECURSIVE BinsFold(_, _, _, _)
BinsFold(vals, n, bw, bs) ==
  IF n = 0 THEN BinState(<<>>, <<>>, FALSE)
  ELSE BinStep(BinsFold(vals, n - 1, bw, bs), vals[n], bw, bs)

\* bins(values, binwidth, binstart), when it returns
Bins(vals, bw, bs) == SortBy(BinsFold(vals, Len(vals), bw, bs).edges_counts)

\* println!("{}\t{}", bin.0, bin.1): the fields of the line written
Println(bin) == <<bin[1], "\t", bin[2]>>

----------------------------------------------------------------------------
\* The program

VARIABLES
  binwidth,      \* main: binwidth
  binstart,      \* main: binstart
  stdin,         \* the lines of standard input
  ln,            \* the number of lines main has read
  values,        \* main: values
  stderr,        \* the lines written to standard error
  bin_ids,       \* bins: bin_ids
  edges_counts,  \* bins: edges_counts, and main's result once bins returned
  i,             \* the number of values the loop of bins has processed
  stdout,        \* the lines written to standard output
  pc             \* "read", "bins", "print", "done", "panic_unwrap", "panic_index"

vars == <<binwidth, binstart, stdin, ln, values, stderr, bin_ids, edges_counts,
          i, stdout, pc>>

SeqsUpTo(S, n) == UNION { [1..m -> S] : m \in 0..n }

Init ==
  /\ binwidth \in Widths
  /\ binstart \in Starts
  /\ stdin \in SeqsUpTo(Lines, MaxLines)
  /\ ln = 0
  /\ values = <<>>
  /\ stderr = <<>>
  /\ bin_ids = <<>>
  /\ edges_counts = <<>>
  /\ i = 0
  /\ stdout = <<>>
  /\ pc = "read"

\* one iteration of main's loop over the lines of standard input
ReadLine ==
  /\ pc = "read"
  /\ ln < Len(stdin)
  /\ ln' = ln + 1
  /\ LET line == stdin[ln + 1]
         r == ParseF64(Trim(line.text))
     IN  IF ~line.utf8
         THEN pc' = "panic_unwrap" /\ UNCHANGED <<values, stderr>>
         ELSE /\ pc' = "read"
              /\ IF r.ok
                 THEN values' = Append(values, r.num) /\ UNCHANGED stderr
                 ELSE stderr' = Append(stderr, "Invalid value entered")
                      /\ UNCHANGED values
  /\ UNCHANGED <<binwidth, binstart, stdin, bin_ids, edges_counts, i, stdout>>

\* the end of input: main calls bins, which creates its two empty vectors
CallBins ==
  /\ pc = "read"
  /\ ln = Len(stdin)
  /\ bin_ids' = <<>>
  /\ edges_counts' = <<>>
  /\ i' = 0
  /\ pc' = "bins"
  /\ UNCHANGED <<binwidth, binstart, stdin, ln, values, stderr, stdout>>

\* one iteration of the loop of bins
BinsLoop ==
  /\ pc = "bins"
  /\ i < Len(values)
  /\ LET st == BinStep(BinState(bin_ids, edges_counts, FALSE), values[i + 1],
                       binwidth, binstart)
     IN  /\ bin_ids' = st.bin_ids
         /\ edges_counts' = st.edges_counts
         /\ pc' = IF st.panicked THEN "panic_index" ELSE "bins"
  /\ i' = i + 1
  /\ UNCHANGED <<binwidth, binstart, stdin, ln, values, stderr, stdout>>

\* the end of the loop: bins sorts edges_counts and returns it to main
BinsReturn ==
  /\ pc = "bins"
  /\ i = Len(values)
  /\ edges_counts' = SortBy(edges_counts)
  /\ pc' = "print"
  /\ UNCHANGED <<binwidth, binstart, stdin, ln, values, stderr, bin_ids, i, stdout>>

\* one iteration of main's loop over the result
PrintBin ==
  /\ pc = "print"
  /\ Len(stdout) < Len(edges_counts)
  /\ stdout' = Append(stdout, Println(edges_counts[Len(stdout) + 1]))
  /\ UNCHANGED <<binwidth, binstart, stdin, ln, values, stderr, bin_ids,
                 edges_counts, i, pc>>

\* main returns
Exit ==
  /\ pc = "print"
  /\ Len(stdout) = Len(edges_counts)
  /\ pc' = "done"
  /\ UNCHANGED <<binwidth, binstart, stdin, ln, values, stderr, bin_ids,
                 edges_counts, i, stdout>>

Next == ReadLine \/ CallBins \/ BinsLoop \/ BinsReturn \/ PrintBin \/ Exit

Spec == Init /\ [][Next]_vars

----------------------------------------------------------------------------
\* Properties

RECURSIVE SumCounts(_, _)
SumCounts(ecs, n) == IF n = 0 THEN 0 ELSE SumCounts(ecs, n - 1) + ecs[n][2]

\* bins has returned to main
Returned == pc \in {"print", "done"}

\* the index of the first of the values processed whose key is id
FirstWithKey(id) ==
  CHOOSE j \in 1..i :
    /\ BinId(values[j], binwidth) = id
    /\ \A q \in 1..(j - 1) : BinId(values[q], binwidth) # id

\* C1: the counts of the records add up to the number of values: to the
\* number of values processed so far while the loop of bins runs, and to the
\* number of values once bins has returned.
C1_CountConservation ==
  /\ pc = "bins" => SumCounts(edges_counts, Len(edges_counts)) = i
  /\ Returned => SumCounts(edges_counts, Len(edges_counts)) = Len(values)

C1_Witness ==
  /\ pc = "done"
  /\ Len(values) = 3
  /\ Len(edges_counts) = 2

\* C10: while the loop of bins runs, bin_ids and edges_counts have the same
\* length, bin_ids holds no key twice, bin_ids[r] is the key of the value that
\* created edges_counts[r], every count is at least 1, there are no more
\* records than values processed, and the position found for the next value is
\* an index of edges_counts.
C10_LoopInvariant ==
  pc = "bins" =>
    /\ Len(bin_ids) = Len(edges_counts)
    /\ \A r, q \in 1..Len(bin_ids) : bin_ids[r] = bin_ids[q] => r = q
    /\ \A r \in 1..Len(edges_counts) : edges_counts[r][2] >= 1
    /\ \A r \in 1..Len(bin_ids) :
         /\ \E j \in 1..i : BinId(values[j], binwidth) = bin_ids[r]
         /\ edges_counts[r][1] =
              Center(values[FirstWithKey(bin_ids[r])], binwidth, binstart)
    /\ Len(edges_counts) <= i
    /\ i < Len(values) =>
         Position(bin_ids, BinId(values[i + 1], binwidth)) <= Len(edges_counts)

C10_Witness ==
  /\ pc = "bins"
  /\ i = 3
  /\ Len(bin_ids) = 2
  /\ edges_counts[2][2] = 2

\* C9: an iteration of the loop of bins on a value whose key is not in bin_ids
\* appends the key, and one record with the value's center and count 1, and
\* leaves the other records as they are; on a value whose key is in bin_ids it
\* adds 1 to the count of that key's record and changes nothing else.  So the
\* center of a record stays the one of the first value with its key.
C9_FirstOccurrenceFrame ==
  [][ (pc = "bins" /\ i' = i + 1 /\ pc' = "bins") =>
        LET val == values[i + 1]
            bin_id == BinId(val, binwidth)
            seen == { r \in 1..Len(bin_ids) : bin_ids[r] = bin_id }
        IN  /\ seen = {} =>
                 /\ bin_ids' = Append(bin_ids, bin_id)
                 /\ edges_counts' =
                      Append(edges_counts, <<Center(val, binwidth, binstart), 1>>)
            /\ seen # {} =>
                 /\ bin_ids' = bin_ids
                 /\ Len(edges_counts') = Len(edges_counts)
                 /\ \A r \in 1..Len(edges_counts) :
                      /\ edges_counts'[r][1] = edges_counts[r][1]
                      /\ edges_counts'[r][2] =
                           edges_counts[r][2] + (IF r \in seen THEN 1 ELSE 0)
            /\ \A r \in 1..Len(edges_counts') :
                 \A j \in 1..(i + 1) :
                   ( /\ BinId(values[j], binwidth) = bin_ids'[r]
                     /\ \A q \in 1..(j - 1) :
                          BinId(values[q], binwidth) # bin_ids'[r] )
                   => edges_counts'[r][1] = Center(values[j], binwidth, binstart)
    ]_vars

\* a repeated key whose value has another center than the record it joins
C9_Witness ==
  /\ pc = "bins"
  /\ i >= 2
  /\ \E r \in 1..Len(edges_counts) :
       /\ edges_counts[r][2] >= 2
       /\ edges_counts[r][1] # Center(values[i], binwidth, binstart)
       /\ bin_ids[r] = BinId(values[i], binwidth)

\* a <= b and a < b on f64
Leq(a, b) == PartialCmp(a, b) \in {"Less", "Equal"}
Lt(a, b) == PartialCmp(a, b) = "Less"

AllFinite(vals, n) == \A j \in 1..n : IsFin(vals[j])

\* the permutations of 1..n
Perms(n) == { f \in [1..n -> 1..n] : \A a, b \in 1..n : f[a] = f[b] => a = b }

NoNaNCenter(ecs) == \A r \in 1..Len(ecs) : ~IsNaN(ecs[r][1])

\* C2: whatever the order of the values, bins returns the same records in the
\* same order, when no record's center is NaN.
C2_OrderIndependence ==
  pc = "print" =>
    \A f \in Perms(Len(values)) :
      LET out == Bins([j \in 1..Len(values) |-> values[f[j]]], binwidth, binstart)
      IN  (NoNaNCenter(edges_counts) /\ NoNaNCenter(out)) => out = edges_counts

\* C3: two finite values are counted in the same record exactly when the
\* floors of their quotients by the width are the same integer, and bins
\* returns as many records as there are such floors among the values.
C3_OneRecordPerFloor ==
  (pc = "bins" /\ Sgn(binwidth) # 0 /\ AllFinite(values, Len(values))) =>
    /\ \A a, b \in 1..i :
         (Position(bin_ids, BinId(values[a], binwidth))
            = Position(bin_ids, BinId(values[b], binwidth)))
         <=> (FloorDiv(values[a], binwidth) = FloorDiv(values[b], binwidth))
    /\ i = Len(values) =>
         Len(edges_counts) =
           Cardinality({ FloorDiv(values[j], binwidth) : j \in 1..Len(values) })

\* C4: with a positive width and finite values, every value v processed is
\* counted in a record whose center c has c - width/2 <= v < c + width/2.
C4_HalfOpenMembership ==
  (pc = "bins" /\ Sgn(binwidth) > 0 /\ AllFinite(values, Len(values))) =>
    \A j \in 1..i :
      LET c == edges_counts[Position(bin_ids, BinId(values[j], binwidth))][1]
          half == FMul(Half, binwidth)
      IN  /\ Leq(FSub(c, half), values[j])
          /\ Lt(values[j], FAdd(c, half))

\* C5: in the records bins returns, a center that is not NaN is at most every
\* later center that is not NaN.
C5_Sorted ==
  Returned =>
    \A a, b \in 1..Len(edges_counts) :
      (a < b /\ ~IsNaN(edges_counts[a][1]) /\ ~IsNaN(edges_counts[b][1]))
        => Leq(edges_counts[a][1], edges_counts[b][1])

\* the origin is a multiple of the positive width, and every value is finite
\* with a quotient within i32
AlignedGrid ==
  /\ Sgn(binwidth) > 0
  /\ binstart.lo % binwidth.lo = 0
  /\ \A j \in 1..Len(values) : IsFin(values[j]) /\ values[j].hi = 0

\* the value v lies in [origin + k * width, origin + (k + 1) * width)
InGridBin(v, k) ==
  /\ binstart.lo + k * binwidth.lo <= v.lo
  /\ v.lo < binstart.lo + (k + 1) * binwidth.lo

\* the ks of the occupied intervals
Occupied == { k \in (-16)..16 : \E j \in 1..Len(values) : InGridBin(values[j], k) }

RECURSIVE Ascending(_)
Ascending(S) ==
  IF S = {} THEN <<>>
  ELSE LET m == CHOOSE x \in S : \A y \in S : x <= y
       IN  <<m>> \o Ascending(S \ {m})

\* the reference histogram: for each occupied interval, in ascending k, its
\* midpoint and the number of values in it
Reference ==
  LET ks == Ascending(Occupied)
  IN  [ r \in 1..Len(ks) |->
          << Fin(0, binstart.lo + ks[r] * binwidth.lo + binwidth.lo \div 2),
             Cardinality({ j \in 1..Len(values) : InGridBin(values[j], ks[r]) }) >> ]

\* C6: on an aligned grid bins returns the reference histogram.
C6_ReferenceHistogram ==
  (Returned /\ AlignedGrid) =>
    /\ \A j \in 1..Len(values) : \E k \in Occupied : InGridBin(values[j], k)
    /\ edges_counts = Reference

\* an origin other than 0, values out of order, and a bin with two values
C6_Witness ==
  /\ pc = "print"
  /\ AlignedGrid
  /\ Sgn(binstart) # 0
  /\ Len(edges_counts) = 2
  /\ bin_ids[1] > bin_ids[2]
  /\ edges_counts[1][2] = 2

RECURSIVE Parseable(_, _)
Parseable(lines, n) ==
  IF n = 0 THEN <<>>
  ELSE LET r == ParseF64(Trim(lines[n].text))
       IN  IF lines[n].utf8 /\ r.ok
           THEN Append(Parseable(lines, n - 1), r.num)
           ELSE Parseable(lines, n - 1)

\* C8: main never aborts on a line: it reads every line, hands bins the
\* numbers of the lines that parse, in their order, warns once for each other
\* line, and prints one line for each record returned, in the order returned.
C8_SkipAndContinue ==
  /\ pc # "panic_unwrap"
  /\ pc # "read" =>
       /\ ln = Len(stdin)
       /\ values = Parseable(stdin, Len(stdin))
       /\ Len(stderr) = Len(stdin) - Len(values)
  /\ pc = "done" =>
       stdout = [r \in 1..Len(edges_counts) |-> Println(edges_counts[r])]

====
